---- MODULE Spec2Model ----
(***************************************************************************)
(* Alert rule evaluation and notification engine of the smart-home         *)
(* telemetry server (alertsEngine.ts: generateMessage, checkRules).        *)
(*                                                                         *)
(* Strings are sequences of symbols: the braces "{" and "}" are symbols of *)
(* their own, every other symbol is a run of text without braces.  A       *)
(* number is a TLA+ integer; value.toString() turns it into the one-symbol *)
(* string holding its decimal numeral.                                     *)
(*                                                                         *)
(* An optional value (T | null | undefined) is <<>> when absent and <<x>>  *)
(* when present.                                                           *)
(***************************************************************************)
EXTENDS Integers, Sequences, FiniteSets, TLC

VARIABLES
    dbRules,      \* table alert_rules, in creation order
    dbMetrics,    \* table metrics joined with devices: metric id -> optional metric
    dbReadings,   \* table readings
    alerts,       \* table alerts, in creation order
    cache,        \* redis: key -> optional serialized value
    published,    \* events emitted on the live channel, in order
    errorLog,     \* console.error lines of checkRules: the reading ids logged
    pc,           \* position of the checkRules invocation
    reading,      \* its argument reading (optional: absent before the call)
    io,           \* its argument io
    rules,        \* its local rules (AlertRule[] | null)
    metric,       \* its local metric
    idx,          \* position of the for-of loop in rules
    createdAlert, \* its local createdAlert (optional)
    raised,       \* TRUE when an exception left checkRules
    calls,        \* history: collaborator calls of the invocation, in order
    createCalls,  \* history: prisma.alert.create calls with their data
    verdicts,     \* history: outcome of the switch for each rule visited
    now,          \* the time, in seconds
    callLog,      \* history: the checkRules invocations that returned, in order
    rpc,          \* position of the POST /readings handler
    req,          \* its request (optional): body and user
    validReadings,\* its local validReadings
    created,      \* its local created
    ri,           \* position of its for-of loop in created, 0 before the loop
    res,          \* its response (optional)
    started,      \* history: the checkRules invocations the handler started
    roles,        \* argument of requireRole
    reqUser,      \* req.user as the middleware finds it (optional)
    resStatus,    \* the answer of the middleware (optional)
    nextCalls,    \* times the middleware called next()
    parked,       \* the checkRules invocations waiting at an await, by their locals
    editLog,      \* history: the rule edits committed, with their time
    startedAt,    \* history: the time the checkRules invocation was called
    sockets,      \* the connected client sockets: namespace, user, rooms joined
    received,     \* the packets handed to client sockets
    gmIn,         \* arguments of a generateMessage call
    gmOut         \* its result (optional)

vars == <<dbRules, dbMetrics, dbReadings, alerts, cache, published, errorLog,
          pc, reading, io, rules, metric, idx, createdAlert, raised, calls, createCalls,
          verdicts, now, callLog, rpc, req, validReadings, created, ri, res, started,
          roles, reqUser, resStatus, nextCalls, parked, editLog, startedAt, sockets,
          received, gmIn, gmOut>>

clockVars == <<now, callLog>>

routeVars == <<rpc, req, validReadings, created, ri, res, started>>

authVars == <<roles, reqUser, resStatus, nextCalls>>

concVars == <<parked, editLog, startedAt>>

liveVars == <<sockets, received>>

msgVars == <<gmIn, gmOut>>

extraVars == <<concVars, liveVars, msgVars>>

serverVars == <<routeVars, authVars, extraVars>>

storeVars == <<dbRules, dbMetrics, dbReadings>>

-----------------------------------------------------------------------------
(* Bounds of the model *)

MaxRules == 3        \* longest rule table of the pipeline scenarios
MaxValue == 3        \* reading values are 0..MaxValue
MaxThreshold == 2    \* thresholds of the single-rule scenarios are 1..MaxThreshold
MaxCalls == 2        \* checkRules invocations of the sequential scenarios
TickSeconds == 150   \* seconds that pass in one step of the clock
MaxTicks == 3        \* steps of the clock
MaxBatch == 3        \* longest body of a POST /readings request
MaxRoles == 2        \* longest roles list given to requireRole
MaxAlerts == 2       \* alerts in the table when POST /alerts is refused further rows
MaxEdits == 1        \* rule edits of the rule-edit scenarios
MaxSockets == 2      \* client sockets connected at once

-----------------------------------------------------------------------------
(* Optional values *)

Null == <<>>
Some(x) == <<x>>
Get(o) == o[1]

-----------------------------------------------------------------------------
(* Strings *)

\* s.indexOf(pat): the first position where pat occurs in s, 0 when none
IndexOf(s, pat) ==
    LET hits == {i \in 1..(Len(s) - Len(pat) + 1) : SubSeq(s, i, i + Len(pat) - 1) = pat}
    IN  IF hits = {} THEN 0 ELSE CHOOSE i \in hits : \A j \in hits : i <= j

Contains(s, pat) == IndexOf(s, pat) # 0

\* s.replace(pat, rep) with a string pattern: only the first occurrence is replaced.
\* (rep holds no "$": the replacement patterns of String.prototype.replace are not drawn.)
StrReplace(s, pat, rep) ==
    LET i == IndexOf(s, pat)
    IN  IF i = 0 THEN s
        ELSE SubSeq(s, 1, i - 1) \o rep \o SubSeq(s, i + Len(pat), Len(s))

\* Number.prototype.toString
NumToString(n) == <<ToString(n)>>

\* the placeholder {name}
Placeholder(name) == <<"{", name, "}">>

\* mutant of generateMessage: a fourth replace consumes the placeholder {unit}
generateMessageUnit(template, metricName, value, threshold) ==
    StrReplace(
        StrReplace(
            StrReplace(
                StrReplace(template, Placeholder("metricName"), metricName),
                Placeholder("value"), NumToString(value)),
            Placeholder("threshold"), NumToString(threshold)),
        Placeholder("unit"), <<>>)

generateMessage(template, metricName, value, threshold) ==
    StrReplace(
        StrReplace(
            StrReplace(template, Placeholder("metricName"), metricName),
            Placeholder("value"), NumToString(value)),
        Placeholder("threshold"), NumToString(threshold))

-----------------------------------------------------------------------------
(* JSON *)

\* JSON.stringify of an AlertRule[]: one object per rule, an object being the
\* list of its members <<key, value>> in the order of the columns
JSONstringify(rs) ==
    [i \in 1..Len(rs) |->
        << <<"id", rs[i].id>>,
           <<"metric_id", rs[i].metric_id>>,
           <<"condition", rs[i].condition>>,
           <<"threshold", rs[i].threshold>>,
           <<"level", rs[i].level>>,
           <<"message_template", rs[i].message_template>> >>]

\* the value of member key of a parsed object
Member(obj, key) == obj[CHOOSE i \in 1..Len(obj) : obj[i][1] = key][2]

\* JSON.parse(cached) as AlertRule[]
JSONparse(text) ==
    [i \in 1..Len(text) |->
        [id |-> Member(text[i], "id"),
         metric_id |-> Member(text[i], "metric_id"),
         condition |-> Member(text[i], "condition"),
         threshold |-> Member(text[i], "threshold"),
         level |-> Member(text[i], "level"),
         message_template |-> Member(text[i], "message_template")]]

-----------------------------------------------------------------------------
(* Collaborators *)

\* mutant of RULES_CACHE_TTL: the TTL of the generic cache helper (CACHE_TTL)
CACHE_TTL == 60

RULES_CACHE_TTL == 300

\* mutant of cacheKey: one cache entry for the rules of every metric
cacheKeyShared(metricId) == <<"alert_rules:", "">>

\* `alert_rules:${metricId}`
cacheKey(metricId) == <<"alert_rules:", metricId>>

\* mutant of userRoom: the room of a metric's subscribers
metricRoom(ownerId) == <<"metric:", ownerId>>

\* mutant of Truthy: the owner id is not looked at
TruthyAlways(str) == TRUE

\* `user:${metric.device.owner_id}`
userRoom(ownerId) == <<"user:", ownerId>>

\* the rules of rs whose metric_id is metricId, in the order of rs
RECURSIVE SelectRules(_, _)
SelectRules(rs, metricId) ==
    IF rs = <<>> THEN <<>>
    ELSE (IF Head(rs).metric_id = metricId THEN <<Head(rs)>> ELSE <<>>)
         \o SelectRules(Tail(rs), metricId)

\* mutant of findMany: the where clause is dropped
findManyUnfiltered(metricId) == dbRules

\* prisma.alertRule.findMany({ where: { metric_id: metricId } })
findMany(metricId) == SelectRules(dbRules, metricId)

\* mutant of findUnique: the where clause is ignored
findUniqueAny(metricId) == dbMetrics["m2"]

\* prisma.metric.findUnique({ where: { id: metricId }, include: { device: true } })
findUnique(metricId) == dbMetrics[metricId]

\* redisClient.get(key): the value stored under key, absent once EX seconds
\* have passed since it was set
redisGet(key) ==
    IF cache[key] # Null /\ now < Get(cache[key]).at + Get(cache[key]).EX
    THEN Some(Get(cache[key]).value)
    ELSE Null

\* mutant of redisSet: the EX option is lost and the entry never expires
redisSetForever(key, value, ex) ==
    [cache EXCEPT ![key] = Some([value |-> value, EX |-> ex + MaxTicks * TickSeconds + 1,
                                 at |-> now])]

\* the cache after redisClient.set(key, value, { EX: ex })
redisSet(key, value, ex) ==
    [cache EXCEPT ![key] = Some([value |-> value, EX |-> ex, at |-> now])]

\* truthiness of a string
Truthy(str) == str # ""

-----------------------------------------------------------------------------
(* checkRules *)

\* mutant of conditionMet: '>=' compares like '>'
conditionMetStrict(condition, value, threshold) ==
    CASE condition = ">"  -> IF value > threshold THEN "met" ELSE "unmet"
      [] condition = "<"  -> IF value < threshold THEN "met" ELSE "unmet"
      [] condition = ">=" -> IF value > threshold THEN "met" ELSE "unmet"
      [] condition = "<=" -> IF value <= threshold THEN "met" ELSE "unmet"
      [] condition = "==" -> IF value = threshold THEN "met" ELSE "unmet"
      [] condition = "!=" -> IF value # threshold THEN "met" ELSE "unmet"
      [] OTHER -> "skipped"

\* the switch on rule.condition: "met" and "unmet" are the two values of
\* conditionMet after a case, "skipped" is the default branch (continue)
conditionMet(condition, value, threshold) ==
    CASE condition = ">"  -> IF value > threshold THEN "met" ELSE "unmet"
      [] condition = "<"  -> IF value < threshold THEN "met" ELSE "unmet"
      [] condition = ">=" -> IF value >= threshold THEN "met" ELSE "unmet"
      [] condition = "<=" -> IF value <= threshold THEN "met" ELSE "unmet"
      [] condition = "==" -> IF value = threshold THEN "met" ELSE "unmet"
      [] condition = "!=" -> IF value # threshold THEN "met" ELSE "unmet"
      [] OTHER -> "skipped"

\* mutant of switchExit: the default branch leaves the loop (return, not continue)
switchExitReturn(verdict) ==
    CASE verdict = "met" -> "create"
      [] verdict = "unmet" -> "loop"
      [] verdict = "skipped" -> "done"

\* where the loop body goes after the switch: a met condition goes on to create
\* the alert, an unmet condition and the default branch (continue) go on to the
\* next rule
switchExit(verdict) ==
    CASE verdict = "met" -> "create"
      [] verdict = "unmet" -> "loop"
      [] verdict = "skipped" -> "loop"

\* mutant of alertData: the threshold field takes the reading's value
alertDataValue(r, rule, m) ==
    [metric_id |-> r.metric_id,
     reading_id |-> r.id,
     level |-> rule.level,
     status |-> "new",
     threshold |-> r.value,
     message |-> generateMessage(rule.message_template, m.name, r.value, rule.threshold)]

\* the object alertData built for a rule whose condition is met
alertData(r, rule, m) ==
    [metric_id |-> r.metric_id,
     reading_id |-> r.id,
     level |-> rule.level,
     status |-> "new",
     threshold |-> rule.threshold,
     message |-> generateMessage(rule.message_template, m.name, r.value, rule.threshold)]

\* the row prisma.alert.create returns for data
createdRow(data) ==
    [id |-> Len(alerts) + 1,
     metric_id |-> data.metric_id,
     reading_id |-> data.reading_id,
     level |-> data.level,
     status |-> data.status,
     threshold |-> data.threshold,
     message |-> data.message]

\* the call of a collaborator and what it was called with
CalledWith(op, ok, info) == calls' = Append(calls, [op |-> op, ok |-> ok, info |-> info])

Called(op, ok) == CalledWith(op, ok, Null)

\* mutant of Catch: the catch block logs and rethrows
CatchRethrow ==
    /\ errorLog' = Append(errorLog, Get(reading).id)
    /\ raised' = TRUE
    /\ pc' = "done"

\* a rejected await or a throw inside the try block: the catch block logs the
\* reading id and checkRules returns
Catch ==
    /\ errorLog' = Append(errorLog, Get(reading).id)
    /\ raised' = raised
    /\ pc' = "done"

\* no exception in this step
NoThrow == UNCHANGED <<errorLog, raised>>

\* checkRules(r, ioArg) is called
Call(r, ioArg) ==
    /\ pc = "idle"
    /\ reading' = Some(r)
    /\ io' = ioArg
    /\ rules' = Null
    /\ pc' = "get"
    /\ UNCHANGED <<storeVars, alerts, cache, published, errorLog, metric, idx,
                   createdAlert, raised, calls, createCalls, verdicts>>

\* const cached = await redisClient.get(cacheKey); if (cached) rules = JSON.parse(cached)
CacheGet ==
    /\ pc = "get"
    /\ \E ok \in BOOLEAN :
        /\ CalledWith("redis.get", ok,
                      [key |-> cacheKey(Get(reading).metric_id), at |-> now,
                       entry |-> cache[cacheKey(Get(reading).metric_id)]])
        /\ IF ok
           THEN LET cached == redisGet(cacheKey(Get(reading).metric_id))
                    parsed == IF cached # Null THEN Some(JSONparse(Get(cached))) ELSE Null
                IN  /\ rules' = parsed
                    /\ pc' = IF parsed = Null THEN "findMany" ELSE "findUnique"
                    /\ NoThrow
           ELSE Catch /\ UNCHANGED rules
    /\ UNCHANGED <<storeVars, alerts, cache, published, reading, io, metric, idx,
                   createdAlert, createCalls, verdicts>>

\* rules = await prisma.alertRule.findMany(...)
FindMany ==
    /\ pc = "findMany"
    /\ \E ok \in BOOLEAN :
        /\ CalledWith("alertRule.findMany", ok,
                      [where |-> Get(reading).metric_id,
                       result |-> findMany(Get(reading).metric_id)])
        /\ IF ok
           THEN /\ rules' = Some(findMany(Get(reading).metric_id))
                /\ pc' = "set"
                /\ NoThrow
           ELSE Catch /\ UNCHANGED rules
    /\ UNCHANGED <<storeVars, alerts, cache, published, reading, io, metric, idx,
                   createdAlert, createCalls, verdicts>>

\* await redisClient.set(cacheKey, JSON.stringify(rules), { EX: RULES_CACHE_TTL })
CacheSet ==
    /\ pc = "set"
    /\ \E ok \in BOOLEAN :
        /\ CalledWith("redis.set", ok,
                      [key |-> cacheKey(Get(reading).metric_id),
                       value |-> JSONstringify(Get(rules)), EX |-> RULES_CACHE_TTL])
        /\ IF ok
           THEN /\ cache' = redisSet(cacheKey(Get(reading).metric_id),
                                     JSONstringify(Get(rules)), RULES_CACHE_TTL)
                /\ pc' = "findUnique"
                /\ NoThrow
           ELSE Catch /\ UNCHANGED cache
    /\ UNCHANGED <<storeVars, alerts, published, reading, io, rules, metric, idx,
                   createdAlert, createCalls, verdicts>>

\* const metric = await prisma.metric.findUnique(...); if (!metric) return
FindUnique ==
    /\ pc = "findUnique"
    /\ \E ok \in BOOLEAN :
        /\ Called("metric.findUnique", ok)
        /\ IF ok
           THEN /\ metric' = findUnique(Get(reading).metric_id)
                /\ pc' = IF metric' = Null THEN "done" ELSE "loop"
                /\ idx' = 1
                /\ NoThrow
           ELSE Catch /\ UNCHANGED <<metric, idx>>
    /\ UNCHANGED <<storeVars, alerts, cache, published, reading, io, rules,
                   createdAlert, createCalls, verdicts>>

\* mutant of CurrentRule: the loop goes through the list from its end
CurrentRuleReversed == Get(rules)[Len(Get(rules)) - idx + 1]

\* the rule the for-of loop is at
CurrentRule == Get(rules)[idx]

\* one turn of the for-of loop up to the test of conditionMet
EvalRule ==
    /\ pc = "loop"
    /\ idx <= Len(Get(rules))
    /\ LET verdict == conditionMet(CurrentRule.condition, Get(reading).value,
                                   CurrentRule.threshold)
       IN  /\ verdicts' = Append(verdicts, verdict)
           /\ pc' = switchExit(verdict)
           /\ idx' = IF switchExit(verdict) = "loop" THEN idx + 1 ELSE idx
    /\ UNCHANGED <<storeVars, alerts, cache, published, errorLog, reading, io, rules,
                   metric, createdAlert, raised, calls, createCalls>>

\* mutant of CreateAlert: the outcome of the create is not waited for, the
\* row goes on to the dispatch whether or not it was stored
CreateAlertUnawaited ==
    /\ pc = "create"
    /\ LET data == alertData(Get(reading), CurrentRule, Get(metric))
       IN  \E ok \in BOOLEAN :
            /\ Called("alert.create", ok)
            /\ createCalls' = Append(createCalls, [rule |-> idx, data |-> data, ok |-> ok])
            /\ alerts' = IF ok THEN Append(alerts, createdRow(data)) ELSE alerts
            /\ createdAlert' = Some(createdRow(data))
            /\ pc' = "notify"
            /\ NoThrow
    /\ UNCHANGED <<storeVars, cache, published, reading, io, rules, metric, idx, verdicts>>

\* const createdAlert = await prisma.alert.create({ data: alertData })
CreateAlert ==
    /\ pc = "create"
    /\ LET data == alertData(Get(reading), CurrentRule, Get(metric))
       IN  \E ok \in BOOLEAN :
            /\ Called("alert.create", ok)
            /\ createCalls' = Append(createCalls, [rule |-> idx, data |-> data, ok |-> ok])
            /\ IF ok
               THEN /\ alerts' = Append(alerts, createdRow(data))
                    /\ createdAlert' = Some(createdRow(data))
                    /\ pc' = "notify"
                    /\ NoThrow
               ELSE Catch /\ UNCHANGED <<alerts, createdAlert>>
    /\ UNCHANGED <<storeVars, cache, published, reading, io, rules, metric, idx, verdicts>>

\* if (io && metric.device.owner_id) io.to(`user:${...}`).emit('new_alert', createdAlert)
\* and on to the next rule
Notify ==
    /\ pc = "notify"
    /\ IF io # Null /\ Truthy(Get(metric).device.owner_id)
       THEN \E ok \in BOOLEAN :
              /\ CalledWith("io.emit", ok,
                            [room |-> userRoom(Get(metric).device.owner_id),
                             event |-> "new_alert",
                             payload |-> Get(createdAlert)])
              /\ IF ok
                 THEN /\ published' = Append(published,
                            [room |-> userRoom(Get(metric).device.owner_id),
                             event |-> "new_alert",
                             payload |-> Get(createdAlert)])
                      /\ pc' = "loop"
                      /\ idx' = idx + 1
                      /\ NoThrow
                 ELSE Catch /\ UNCHANGED <<published, idx>>
       ELSE /\ pc' = "loop"
            /\ idx' = idx + 1
            /\ NoThrow
            /\ UNCHANGED <<published, calls>>
    /\ UNCHANGED <<storeVars, alerts, cache, reading, io, rules, metric, createdAlert,
                   createCalls, verdicts>>

\* the for-of loop is exhausted: checkRules returns
LoopExit ==
    /\ pc = "loop"
    /\ idx > Len(Get(rules))
    /\ pc' = "done"
    /\ UNCHANGED <<storeVars, alerts, cache, published, errorLog, reading, io, rules,
                   metric, idx, createdAlert, raised, calls, createCalls, verdicts>>

\* checkRules has returned to its caller: the invocation is over
Return ==
    /\ pc = "done"
    /\ callLog' = Append(callLog, [reading |-> Get(reading).id, calls |-> calls,
                                   rules |-> rules, createCalls |-> createCalls])
    /\ pc' = "idle"
    /\ reading' = Null
    /\ io' = Null
    /\ rules' = Null
    /\ metric' = Null
    /\ idx' = 0
    /\ createdAlert' = Null
    /\ calls' = <<>>
    /\ createCalls' = <<>>
    /\ verdicts' = <<>>
    /\ UNCHANGED <<storeVars, alerts, cache, published, errorLog, raised, now>>

\* time passes
Elapse ==
    /\ now < MaxTicks * TickSeconds
    /\ now' = now + TickSeconds
    /\ UNCHANGED <<storeVars, alerts, cache, published, errorLog, pc, reading, io, rules,
                   metric, idx, createdAlert, raised, calls, createCalls, verdicts, callLog>>

\* time passes between two invocations
Tick == pc = "idle" /\ Elapse

-----------------------------------------------------------------------------
(* POST /readings *)
\* A reading of the body is its metric_id and value; its timestamp, which
\* checkRules does not read, is not drawn.

\* the engine does not move during a step of the handler
engineVars == <<dbRules, dbMetrics, alerts, cache, published, errorLog, pc, reading, io,
                rules, metric, idx, createdAlert, raised, calls, createCalls, verdicts>>

\* prisma.metric.findMany({ where: { id: { in: metricIds } }, include: { device: true } })
metricFindMany(metricIds) ==
    {Get(dbMetrics[id]) : id \in {i \in metricIds \cap DOMAIN dbMetrics : dbMetrics[i] # Null}}

\* mutant of allowedMetricIds: the owner of the device is not looked at
allowedMetricIdsAll(metrics, user) == {m.id : m \in metrics}

\* the ids of the metrics the user may write to
allowedMetricIds(metrics, user) ==
    {m.id : m \in {x \in metrics : user.role = "admin" \/ x.device.owner_id = user.id}}

\* the rows prisma.$transaction returns for the data of validReadings, when the
\* table holds n rows
createdRows(data, n) ==
    [k \in 1..Len(data) |->
        [id |-> "r" \o ToString(n + k), metric_id |-> data[k].metric_id,
         value |-> data[k].value]]

Response(status, data) == Some([status |-> status, data |-> data])

\* the catch block of the handler
Respond400 ==
    /\ res' = Response(400, Null)
    /\ rpc' = "responded"

\* a request arrives, authenticated as user
Request(body, user) ==
    /\ rpc = "idle"
    /\ req = Null
    /\ req' = Some([body |-> body, user |-> user])
    /\ rpc' = "parse"
    /\ UNCHANGED <<engineVars, dbReadings, clockVars, validReadings, created, ri, res,
                   started, authVars, extraVars>>

\* z.array(ReadingSchema).parse(req.body)
ParseBody ==
    /\ rpc = "parse"
    /\ IF Get(req).body.valid
       THEN rpc' = "findMetrics" /\ UNCHANGED res
       ELSE Respond400
    /\ UNCHANGED <<engineVars, dbReadings, clockVars, req, validReadings, created, ri,
                   started, authVars, extraVars>>

\* the metrics of the body are fetched and the readings of the metrics the
\* user may write to are kept
FindMetrics ==
    /\ rpc = "findMetrics"
    /\ \E ok \in BOOLEAN :
        IF ok
        THEN LET readings == Get(req).body.items
                 metricIds == {readings[k].metric_id : k \in 1..Len(readings)}
                 allowed == allowedMetricIds(metricFindMany(metricIds), Get(req).user)
             IN  /\ validReadings' = SelectSeq(readings, LAMBDA r : r.metric_id \in allowed)
                 /\ rpc' = "transaction"
                 /\ UNCHANGED res
        ELSE Respond400 /\ UNCHANGED validReadings
    /\ UNCHANGED <<engineVars, dbReadings, clockVars, req, created, ri, started, authVars, extraVars>>

\* if (validReadings.length > 0) created = await prisma.$transaction(...)
Transaction ==
    /\ rpc = "transaction"
    /\ IF Len(validReadings) > 0
       THEN \E ok \in BOOLEAN :
              IF ok
              THEN LET rows == createdRows(validReadings, Cardinality(dbReadings))
                   IN  /\ created' = rows
                       /\ dbReadings' = dbReadings \cup {rows[k] : k \in 1..Len(rows)}
                       /\ ri' = 1
                       /\ rpc' = "checkRules"
                       /\ UNCHANGED res
              ELSE Respond400 /\ UNCHANGED <<created, dbReadings, ri>>
       ELSE /\ ri' = 1
            /\ rpc' = "checkRules"
            /\ UNCHANGED <<created, dbReadings, res>>
    /\ UNCHANGED <<engineVars, clockVars, req, validReadings, started, authVars, extraVars>>

\* for (const r of created) { await checkRules(r, liveIo); }: the call
InvokeCheckRules ==
    /\ rpc = "checkRules"
    /\ ri <= Len(created)
    /\ Call(created[ri], Some("liveIo"))
    /\ started' = Append(started, [reading |-> created[ri], io |-> "liveIo",
                                   returned |-> Len(callLog)])
    /\ rpc' = "await"
    /\ UNCHANGED <<clockVars, req, validReadings, created, ri, res, authVars, extraVars>>

\* the awaited checkRules settles: on to the next reading, or to the catch
\* block when it rejected
Resume ==
    /\ rpc = "await"
    /\ Return
    /\ IF raised
       THEN Respond400 /\ UNCHANGED ri
       ELSE /\ ri' = ri + 1
            /\ rpc' = "checkRules"
            /\ UNCHANGED res
    /\ UNCHANGED <<req, validReadings, created, started, authVars, extraVars>>

\* res.status(202).json({ status: 'ok', data: { accepted, rejected } })
Respond202 ==
    /\ rpc = "checkRules"
    /\ ri > Len(created)
    /\ res' = Response(202, Some([accepted |-> Len(validReadings),
                                  rejected |-> Len(Get(req).body.items) - Len(validReadings)]))
    /\ rpc' = "responded"
    /\ UNCHANGED <<engineVars, dbReadings, clockVars, req, validReadings, created, ri,
                   started, authVars, extraVars>>

-----------------------------------------------------------------------------
(* requireRole *)

\* the role names drawn, with their lower-case form
ToLowerCase(str) == IF str \in {"ADMIN", "Admin"} THEN "admin" ELSE str

\* mutant of includes: letter case is not looked at
includesIgnoreCase(arr, x) ==
    \E i \in 1..Len(arr) : ToLowerCase(arr[i]) = ToLowerCase(x)

\* arr.includes(x) on strings
includes(arr, x) == \E i \in 1..Len(arr) : arr[i] = x

\* res.status(403).json({ status: 'error', error: { code: 'forbidden', ... } })
Forbidden ==
    Some([status |-> 403,
          body |-> [status |-> "error",
                    error |-> [code |-> "forbidden",
                               message |-> "Insufficient permissions"]]])

\* the middleware requireRole(roles) runs on a request
RequireRole ==
    /\ resStatus = Null
    /\ nextCalls = 0
    /\ IF reqUser = Null \/ ~includes(roles, Get(reqUser).role)
       THEN resStatus' = Forbidden /\ UNCHANGED nextCalls
       ELSE nextCalls' = nextCalls + 1 /\ UNCHANGED resStatus
    /\ UNCHANGED <<engineVars, dbReadings, clockVars, routeVars, roles, reqUser, extraVars>>

-----------------------------------------------------------------------------
(* Alert routes *)

\* what a route on the alerts table leaves alone
alertRouteFrame ==
    <<storeVars, cache, published, errorLog, pc, reading, io, rules, metric, idx,
      createdAlert, raised, calls, createCalls, verdicts, clockVars, rpc, req,
      validReadings, created, ri, started, authVars, extraVars>>

\* prisma.alert.findUnique({ where: { id } }): ids are positions in the table
alertFindUnique(id) == IF id \in 1..Len(alerts) THEN Some(alerts[id]) ELSE Null

\* the user is neither an admin nor the owner of the device of the alert's metric
NotOwnerNorAdmin(alert, user) ==
    /\ user.role # "admin"
    /\ Get(dbMetrics[alert.metric_id]).device.owner_id # user.id

\* prisma.alert.update({ where: { id }, data: { status } })
setStatus(id, status) == [alerts EXCEPT ![id].status = status]

\* POST /alerts/:id/ack
Ack(id, user) ==
    /\ LET alert == alertFindUnique(id)
       IN  IF alert = Null \/ NotOwnerNorAdmin(Get(alert), user)
           THEN res' = Response(403, Null) /\ UNCHANGED alerts
           ELSE /\ alerts' = setStatus(id, "acknowledged")
                /\ res' = Response(200, Null)
    /\ UNCHANGED alertRouteFrame

\* POST /alerts/:id/close
Close(id, user) ==
    /\ LET alert == alertFindUnique(id)
       IN  IF alert = Null \/ NotOwnerNorAdmin(Get(alert), user)
           THEN res' = Response(403, Null) /\ UNCHANGED alerts
           ELSE /\ alerts' = setStatus(id, "closed")
                /\ res' = Response(200, Null)
    /\ UNCHANGED alertRouteFrame

\* the foreign key of alerts.reading_id: a reading_id given names a stored reading
ReadingKeyHolds(data) ==
    "reading_id" \in DOMAIN data => \E r \in dbReadings : r.id = data.reading_id

\* POST /alerts, behind authenticate and requireAdmin; data is the parsed body
PostAlert(data, user) ==
    /\ Len(alerts) < MaxAlerts
    /\ IF ~includes(<<"admin">>, user.role)
       THEN res' = Forbidden /\ UNCHANGED alerts
       ELSE IF findUnique(data.metric_id) = Null \/ ~ReadingKeyHolds(data)
            THEN res' = Response(400, Null) /\ UNCHANGED alerts
            ELSE /\ alerts' = Append(alerts, [id |-> Len(alerts) + 1] @@ data)
                 /\ res' = Response(201, Null)
    /\ UNCHANGED alertRouteFrame

-----------------------------------------------------------------------------
(* Rule routes *)

\* what a route on the alert_rules table leaves alone
ruleRouteFrame ==
    <<dbMetrics, dbReadings, alerts, cache, published, errorLog, pc, reading, io, rules,
      metric, idx, createdAlert, raised, calls, createCalls, verdicts, clockVars, rpc,
      req, validReadings, created, ri, started, authVars, parked, startedAt, liveVars,
      msgVars>>

\* prisma.alertRule.findUnique({ where: { id } })
ruleFindUnique(id) ==
    IF \E k \in 1..Len(dbRules) : dbRules[k].id = id
    THEN Some(dbRules[CHOOSE k \in 1..Len(dbRules) : dbRules[k].id = id])
    ELSE Null

\* an id no row of the table has or had
FreshRuleId ==
    LET ids == {dbRules[k].id : k \in 1..Len(dbRules)} \cup {0}
    IN  (CHOOSE m \in ids : \A n \in ids : n <= m) + Len(editLog) + 1

\* the row after prisma.alertRule.update({ data }): the members of data replace
\* the row's
updatedRow(row, data) ==
    [f \in DOMAIN row |-> IF f \in DOMAIN data THEN data[f] ELSE row[f]]

\* the edit is committed: the table is rs from now on
Commit(op, rs) ==
    /\ dbRules' = rs
    /\ editLog' = Append(editLog, [op |-> op, at |-> now])

\* POST /alerts/rules, behind authenticate and requireAdmin; data is the parsed body
PostRule(data, user) ==
    /\ Len(editLog) < MaxEdits
    /\ IF ~includes(<<"admin">>, user.role)
       THEN res' = Forbidden /\ UNCHANGED <<dbRules, editLog>>
       ELSE IF findUnique(data.metric_id) = Null
            THEN res' = Response(404, Null) /\ UNCHANGED <<dbRules, editLog>>
            ELSE /\ Commit("create", Append(dbRules, [id |-> FreshRuleId] @@ data))
                 /\ res' = Response(201, Null)
    /\ UNCHANGED ruleRouteFrame

\* mutant of PutRule: the alerts that carry the old threshold of the rule
\* follow the update
PutRuleCascade(id, data, user) ==
    /\ Len(editLog) < MaxEdits
    /\ ruleFindUnique(id) # Null
    /\ Commit("update",
              [k \in 1..Len(dbRules) |->
                  IF dbRules[k].id = id THEN updatedRow(dbRules[k], data) ELSE dbRules[k]])
    /\ alerts' = [i \in 1..Len(alerts) |->
                    IF alerts[i].threshold = Get(ruleFindUnique(id)).threshold
                    THEN [alerts[i] EXCEPT !.threshold = data.threshold]
                    ELSE alerts[i]]
    /\ res' = Response(200, Null)
    /\ UNCHANGED <<dbMetrics, dbReadings, cache, published, errorLog, pc, reading, io,
                   rules, metric, idx, createdAlert, raised, calls, createCalls, verdicts,
                   clockVars, rpc, req, validReadings, created, ri, started, authVars,
                   parked, startedAt, liveVars, msgVars>>

\* PUT /alerts/rules/:id, behind authenticate and requireAdmin
PutRule(id, data, user) ==
    /\ Len(editLog) < MaxEdits
    /\ IF ~includes(<<"admin">>, user.role)
       THEN res' = Forbidden /\ UNCHANGED <<dbRules, editLog>>
       ELSE IF ruleFindUnique(id) = Null
            THEN res' = Response(404, Null) /\ UNCHANGED <<dbRules, editLog>>
            ELSE /\ Commit("update",
                          [k \in 1..Len(dbRules) |->
                              IF dbRules[k].id = id THEN updatedRow(dbRules[k], data)
                              ELSE dbRules[k]])
                 /\ res' = Response(200, Null)
    /\ UNCHANGED ruleRouteFrame

\* DELETE /alerts/rules/:id, behind authenticate and requireAdmin
DeleteRule(id, user) ==
    /\ Len(editLog) < MaxEdits
    /\ IF ~includes(<<"admin">>, user.role)
       THEN res' = Forbidden /\ UNCHANGED <<dbRules, editLog>>
       ELSE IF ruleFindUnique(id) = Null
            THEN res' = Response(404, Null) /\ UNCHANGED <<dbRules, editLog>>
            ELSE /\ Commit("delete", SelectSeq(dbRules, LAMBDA q : q.id # id))
                 /\ res' = Response(200, Null)
    /\ UNCHANGED ruleRouteFrame

-----------------------------------------------------------------------------
(* Scenarios *)

Metrics == {"m1", "m2"}
Values == 0..MaxValue
Conditions == {">", "<", ">=", "<=", "==", "!=", "???"}
Levels == {"info", "warning", "critical"}

\* message templates of the unit tests
TemplateFull == Placeholder("metricName") \o <<" is ">> \o Placeholder("value")
                \o <<", exceeding ">> \o Placeholder("threshold")
TemplateTwice == Placeholder("metricName") \o <<": ">> \o Placeholder("value") \o <<", ">>
                 \o Placeholder("metricName") \o <<": ">> \o Placeholder("value")
TemplateUnit == Placeholder("value") \o Placeholder("unit") \o <<" over ">>
                \o Placeholder("threshold") \o Placeholder("unit")
TemplatePlain == <<"Alert: High temperature detected">>
TemplateEmpty == <<>>
Templates == {TemplateFull, TemplateTwice, TemplateUnit, TemplatePlain, TemplateEmpty}

MetricRow(id, ownerId) ==
    [id |-> id, name |-> <<"Temp">>, unit |-> <<"C">>, device |-> [owner_id |-> ownerId]]

RuleRow(metricId, condition, threshold, level, template) ==
    [metric_id |-> metricId, condition |-> condition, threshold |-> threshold,
     level |-> level, message_template |-> template]

\* rows get their ids in creation order
WithIds(rows) ==
    [i \in 1..Len(rows) |->
        [id |-> i, metric_id |-> rows[i].metric_id, condition |-> rows[i].condition,
         threshold |-> rows[i].threshold, level |-> rows[i].level,
         message_template |-> rows[i].message_template]]

SeqsUpTo(S, n) == UNION {[1..k -> S] : k \in 0..n}

\* rules of the pipeline scenarios: on metric m1 a rule per condition of
\* PoolConditions and level of PoolLevels, and one rule of metric m2
PoolConditions == {">", "<=", "???"}
PoolLevels == {"warning", "critical"}
PoolRules ==
    {RuleRow("m1", c, 1, l, TemplateFull) : c \in PoolConditions, l \in PoolLevels}
    \cup {RuleRow("m2", ">=", 0, "info", TemplatePlain)}

\* rules of the single-rule scenarios
AllRules ==
    {RuleRow("m1", c, t, l, tpl) :
        c \in Conditions, t \in 1..MaxThreshold, l \in Levels, tpl \in Templates}

\* the state of the stores before checkRules is called, for a rule table
InitWith(ruleTables) ==
    /\ dbRules \in {WithIds(rows) : rows \in ruleTables}
    /\ dbMetrics \in {[m \in Metrics |-> IF m = "m1" THEN row ELSE Some(MetricRow(m, "u2"))] :
                        row \in {Null, Some(MetricRow("m1", "")), Some(MetricRow("m1", "u1"))}}
    /\ dbReadings \in {{[id |-> "r1", metric_id |-> "m1", value |-> v]} : v \in Values}
    /\ alerts = <<>>
    \* the entry of m1 is absent or as an earlier call left it
    /\ cache \in {[k \in {cacheKey(m) : m \in Metrics} |->
                     IF k = cacheKey("m1") THEN entry ELSE Null] :
                    entry \in {Null, Some([value |-> JSONstringify(SelectRules(dbRules, "m1")),
                                           EX |-> RULES_CACHE_TTL, at |-> 0])}}
    /\ published = <<>>
    /\ errorLog = <<>>
    /\ pc = "idle"
    /\ reading = Null
    /\ io = Null
    /\ rules = Null
    /\ metric = Null
    /\ idx = 0
    /\ createdAlert = Null
    /\ raised = FALSE
    /\ calls = <<>>
    /\ createCalls = <<>>
    /\ verdicts = <<>>
    /\ now = 0
    /\ callLog = <<>>

\* a table of up to MaxRules pool rules, or a table of one rule of any kind
RuleTables == SeqsUpTo(PoolRules, MaxRules) \cup {<<row>> : row \in AllRules}

\* no invocation is waiting, no rule was edited, no socket is connected, and
\* generateMessage is not being applied
ExtraIdle ==
    /\ parked = <<>>
    /\ editLog = <<>>
    /\ startedAt = 0
    /\ sockets = {}
    /\ received = {}
    /\ gmIn = Null
    /\ gmOut = Null

\* no request is being handled
RouteIdle ==
    /\ rpc = "idle"
    /\ req = Null
    /\ validReadings = <<>>
    /\ created = <<>>
    /\ ri = 0
    /\ res = Null
    /\ started = <<>>

\* the middleware is not running
AuthIdle ==
    /\ roles = <<>>
    /\ reqUser = Null
    /\ resStatus = Null
    /\ nextCalls = 0

Init == InitWith(RuleTables) /\ RouteIdle /\ AuthIdle /\ ExtraIdle

\* one checkRules invocation on the reading of the store
Next ==
    \/ /\ \E r \in dbReadings, ioArg \in {Null, Some("liveIo")} : Call(r, ioArg)
       /\ UNCHANGED <<clockVars, serverVars>>
    \/ CacheGet /\ UNCHANGED <<clockVars, serverVars>>
    \/ FindMany /\ UNCHANGED <<clockVars, serverVars>>
    \/ CacheSet /\ UNCHANGED <<clockVars, serverVars>>
    \/ FindUnique /\ UNCHANGED <<clockVars, serverVars>>
    \/ EvalRule /\ UNCHANGED <<clockVars, serverVars>>
    \/ CreateAlert /\ UNCHANGED <<clockVars, serverVars>>
    \/ Notify /\ UNCHANGED <<clockVars, serverVars>>
    \/ LoopExit /\ UNCHANGED <<clockVars, serverVars>>

Spec == Init /\ [][Next]_vars

\* checkRules invocations one after the other on the reading of the store,
\* while time passes
SeqRuleTables == {<<>>} \cup {<<row>> : row \in PoolRules}

InitSeq ==
    /\ InitWith(SeqRuleTables)
    /\ \A r \in dbReadings : r.value \in {0, MaxValue}
    /\ RouteIdle
    /\ ExtraIdle
    /\ AuthIdle

NextSeq ==
    \/ /\ Len(callLog) < MaxCalls
       /\ \E r \in dbReadings, ioArg \in {Null, Some("liveIo")} : Call(r, ioArg)
       /\ UNCHANGED <<clockVars, serverVars>>
    \/ CacheGet /\ UNCHANGED <<clockVars, serverVars>>
    \/ FindMany /\ UNCHANGED <<clockVars, serverVars>>
    \/ CacheSet /\ UNCHANGED <<clockVars, serverVars>>
    \/ FindUnique /\ UNCHANGED <<clockVars, serverVars>>
    \/ EvalRule /\ UNCHANGED <<clockVars, serverVars>>
    \/ CreateAlert /\ UNCHANGED <<clockVars, serverVars>>
    \/ Notify /\ UNCHANGED <<clockVars, serverVars>>
    \/ LoopExit /\ UNCHANGED <<clockVars, serverVars>>
    \/ Return /\ UNCHANGED serverVars
    \/ Tick /\ UNCHANGED serverVars

SpecSeq == InitSeq /\ [][NextSeq]_vars

\* POST /readings: one request
BatchRuleTables ==
    {<<>>,
     <<RuleRow("m1", ">", 1, "warning", TemplateFull)>>,
     <<RuleRow("m1", ">", 1, "warning", TemplateFull),
       RuleRow("m2", ">=", 0, "info", TemplatePlain)>>}

BatchItems == {[metric_id |-> "m1", value |-> MaxValue], [metric_id |-> "m2", value |-> 0]}

Bodies ==
    {[valid |-> TRUE, items |-> b] : b \in SeqsUpTo(BatchItems, MaxBatch)}
    \cup {[valid |-> FALSE, items |-> <<>>]}

Users == {[id |-> "u1", role |-> "user"], [id |-> "u2", role |-> "user"],
          [id |-> "u3", role |-> "admin"]}

InitBatch ==
    /\ InitWith(BatchRuleTables)
    /\ \A r \in dbReadings : r.value = 0
    /\ \A k \in DOMAIN cache : cache[k] = Null
    /\ RouteIdle
    /\ ExtraIdle
    /\ AuthIdle

NextBatch ==
    \/ \E body \in Bodies, user \in Users : Request(body, user)
    \/ ParseBody
    \/ FindMetrics
    \/ Transaction
    \/ InvokeCheckRules
    \/ CacheGet /\ UNCHANGED <<clockVars, serverVars>>
    \/ FindMany /\ UNCHANGED <<clockVars, serverVars>>
    \/ CacheSet /\ UNCHANGED <<clockVars, serverVars>>
    \/ FindUnique /\ UNCHANGED <<clockVars, serverVars>>
    \/ EvalRule /\ UNCHANGED <<clockVars, serverVars>>
    \/ CreateAlert /\ UNCHANGED <<clockVars, serverVars>>
    \/ Notify /\ UNCHANGED <<clockVars, serverVars>>
    \/ LoopExit /\ UNCHANGED <<clockVars, serverVars>>
    \/ Resume
    \/ Respond202

SpecBatch == InitBatch /\ [][NextBatch]_vars

\* requireRole(roles) applied to one request
RoleNames == {"admin", "user", "service", "ADMIN", "Admin", "invalid_role"}

InitAuth ==
    /\ InitWith({<<>>})
    /\ dbMetrics["m1"] = Null
    /\ \A r \in dbReadings : r.value = 0
    /\ \A k \in DOMAIN cache : cache[k] = Null
    /\ RouteIdle
    /\ ExtraIdle
    /\ roles \in SeqsUpTo(RoleNames, MaxRoles)
    /\ reqUser \in {Null} \cup {Some([id |-> "u1", role |-> r]) : r \in RoleNames}
    /\ resStatus = Null
    /\ nextCalls = 0

NextAuth == RequireRole

SpecAuth == InitAuth /\ [][NextAuth]_vars

\* the alerts table under the pipeline and the alert routes
AlertBodies ==
    {[metric_id |-> "m2", level |-> "info", message |-> <<"manual">>, status |-> "new"]}
    \cup {[metric_id |-> m, reading_id |-> "r1", level |-> "info", message |-> <<"manual">>,
           status |-> "new"] : m \in Metrics}
    \cup {[metric_id |-> "m1", reading_id |-> "r9", level |-> "info",
           message |-> <<"manual">>, status |-> "new"]}

AlertUsers == {[id |-> "u2", role |-> "user"], [id |-> "u3", role |-> "admin"]}

InitAlerts ==
    /\ InitWith(BatchRuleTables)
    /\ dbMetrics["m1"] # Null
    /\ \A r \in dbReadings : r.value = MaxValue
    /\ \A k \in DOMAIN cache : cache[k] = Null
    /\ RouteIdle
    /\ ExtraIdle
    /\ AuthIdle

NextAlerts ==
    \/ /\ callLog = <<>>
       /\ \E r \in dbReadings : Call(r, Some("liveIo"))
       /\ UNCHANGED <<clockVars, serverVars>>
    \/ CacheGet /\ UNCHANGED <<clockVars, serverVars>>
    \/ FindMany /\ UNCHANGED <<clockVars, serverVars>>
    \/ CacheSet /\ UNCHANGED <<clockVars, serverVars>>
    \/ FindUnique /\ UNCHANGED <<clockVars, serverVars>>
    \/ EvalRule /\ UNCHANGED <<clockVars, serverVars>>
    \/ CreateAlert /\ UNCHANGED <<clockVars, serverVars>>
    \/ Notify /\ UNCHANGED <<clockVars, serverVars>>
    \/ LoopExit /\ UNCHANGED <<clockVars, serverVars>>
    \/ Return /\ UNCHANGED serverVars
    \/ \E data \in AlertBodies, user \in AlertUsers : PostAlert(data, user)
    \/ \E id \in 1..MaxAlerts + 1, user \in AlertUsers : Ack(id, user)
    \/ \E id \in 1..MaxAlerts + 1, user \in AlertUsers : Close(id, user)

SpecAlerts == InitAlerts /\ [][NextAlerts]_vars

\* the collaborator call of the step answers
Succeeds == \A i \in 1..Len(calls') : calls'[i].ok

\* checkRules invocations one after the other, the rule routes and the clock,
\* no collaborator failing; time passes between invocations and while a cache
\* write is pending
EditRuleTables ==
    {<<RuleRow("m1", ">", 1, "warning", TemplateFull)>>,
     <<RuleRow("m1", ">", 1, "warning", TemplateFull),
       RuleRow("m1", ">=", 2, "critical", TemplatePlain)>>}

RuleBodies == {RuleRow("m1", "<", 1, "info", TemplatePlain)}

RulePatches == {[threshold |-> 0, level |-> "info", message_template |-> TemplatePlain]}

RuleUsers == {[id |-> "u1", role |-> "user"], [id |-> "u3", role |-> "admin"]}

InitEdit ==
    /\ InitWith(EditRuleTables)
    /\ dbMetrics["m1"] = Some(MetricRow("m1", "u1"))
    /\ \A r \in dbReadings : r.value = MaxValue
    /\ \A k \in DOMAIN cache : cache[k] = Null
    /\ RouteIdle
    /\ ExtraIdle
    /\ AuthIdle

NextEdit ==
    \/ /\ Len(callLog) < MaxCalls
       /\ \E r \in dbReadings : Call(r, Null)
       /\ startedAt' = now
       /\ UNCHANGED <<clockVars, routeVars, authVars, parked, editLog, liveVars, msgVars>>
    \/ CacheGet /\ Succeeds /\ UNCHANGED <<clockVars, serverVars>>
    \/ FindMany /\ Succeeds /\ UNCHANGED <<clockVars, serverVars>>
    \/ CacheSet /\ Succeeds /\ UNCHANGED <<clockVars, serverVars>>
    \/ FindUnique /\ Succeeds /\ UNCHANGED <<clockVars, serverVars>>
    \/ EvalRule /\ UNCHANGED <<clockVars, serverVars>>
    \/ CreateAlert /\ Succeeds /\ UNCHANGED <<clockVars, serverVars>>
    \/ Notify /\ Succeeds /\ UNCHANGED <<clockVars, serverVars>>
    \/ LoopExit /\ UNCHANGED <<clockVars, serverVars>>
    \/ Return /\ UNCHANGED serverVars
    \/ pc \in {"idle", "set"} /\ Elapse /\ UNCHANGED serverVars
    \/ \E data \in RuleBodies, user \in RuleUsers : PostRule(data, user)
    \/ \E id \in 1..2, data \in RulePatches, user \in RuleUsers : PutRule(id, data, user)
    \/ \E id \in 1..2, user \in RuleUsers : DeleteRule(id, user)

SpecEdit == InitEdit /\ [][NextEdit]_vars

\* two requests are being handled at once: the locals of the checkRules
\* invocation that is not running are kept aside while it waits for a
\* collaborator
Locals ==
    [pc |-> pc, reading |-> reading, io |-> io, rules |-> rules, metric |-> metric,
     idx |-> idx, createdAlert |-> createdAlert, calls |-> calls,
     createCalls |-> createCalls, verdicts |-> verdicts]

\* the locals of an invocation that has not been called
IdleLocals ==
    [pc |-> "idle", reading |-> Null, io |-> Null, rules |-> Null, metric |-> Null,
     idx |-> 0, createdAlert |-> Null, calls |-> <<>>, createCalls |-> <<>>,
     verdicts |-> <<>>]

\* the positions at which checkRules waits: before it is called, at each
\* await, and once it has returned
Awaiting == {"idle", "get", "findMany", "set", "findUnique", "create", "done"}

\* the event loop goes on with the other invocation
Switch ==
    /\ Len(parked) = 1
    /\ pc \in Awaiting
    /\ parked' = <<Locals>>
    /\ pc' = parked[1].pc
    /\ reading' = parked[1].reading
    /\ io' = parked[1].io
    /\ rules' = parked[1].rules
    /\ metric' = parked[1].metric
    /\ idx' = parked[1].idx
    /\ createdAlert' = parked[1].createdAlert
    /\ calls' = parked[1].calls
    /\ createCalls' = parked[1].createCalls
    /\ verdicts' = parked[1].verdicts
    /\ UNCHANGED <<storeVars, alerts, cache, published, errorLog, raised, clockVars,
                   routeVars, authVars, editLog, startedAt, liveVars, msgVars>>

\* the readings checkRules has been called on
CalledReadings ==
    {callLog[i].reading : i \in 1..Len(callLog)}
    \cup {Get(l.reading).id : l \in {l \in {Locals, parked[1]} : l.reading # Null}}

\* rules of both metrics, in creation order
ConcRuleTables ==
    {<<RuleRow("m1", ">", 1, "warning", TemplateFull),
       RuleRow("m2", ">=", 1, "info", TemplatePlain),
       RuleRow("m1", ">=", 2, "critical", TemplatePlain)>>}

\* a reading of m1 and a reading of either metric
ConcReadings ==
    {{[id |-> "r1", metric_id |-> "m1", value |-> v],
      [id |-> "r2", metric_id |-> m, value |-> w]} :
        v \in Values, w \in Values, m \in Metrics}

InitConc ==
    /\ dbRules \in {WithIds(rows) : rows \in ConcRuleTables}
    /\ dbMetrics = [m \in Metrics |->
                      Some(MetricRow(m, IF m = "m1" THEN "u1" ELSE "u2"))]
    /\ dbReadings \in ConcReadings
    /\ alerts = <<>>
    /\ cache = [k \in {cacheKey(m) : m \in Metrics} |-> Null]
    /\ published = <<>>
    /\ errorLog = <<>>
    /\ pc = "idle"
    /\ reading = Null
    /\ io = Null
    /\ rules = Null
    /\ metric = Null
    /\ idx = 0
    /\ createdAlert = Null
    /\ raised = FALSE
    /\ calls = <<>>
    /\ createCalls = <<>>
    /\ verdicts = <<>>
    /\ now = 0
    /\ callLog = <<>>
    /\ RouteIdle
    /\ AuthIdle
    /\ parked = <<IdleLocals>>
    /\ editLog = <<>>
    /\ startedAt = 0
    /\ sockets = {}
    /\ received = {}
    /\ gmIn = Null
    /\ gmOut = Null

NextConc ==
    \/ /\ \E r \in dbReadings, ioArg \in {Null, Some("liveIo")} :
            r.id \notin CalledReadings /\ Call(r, ioArg)
       /\ UNCHANGED <<clockVars, serverVars>>
    \/ CacheGet /\ Succeeds /\ UNCHANGED <<clockVars, serverVars>>
    \/ FindMany /\ Succeeds /\ UNCHANGED <<clockVars, serverVars>>
    \/ CacheSet /\ Succeeds /\ UNCHANGED <<clockVars, serverVars>>
    \/ FindUnique /\ Succeeds /\ UNCHANGED <<clockVars, serverVars>>
    \/ EvalRule /\ UNCHANGED <<clockVars, serverVars>>
    \/ CreateAlert /\ Succeeds /\ UNCHANGED <<clockVars, serverVars>>
    \/ Notify /\ Succeeds /\ UNCHANGED <<clockVars, serverVars>>
    \/ LoopExit /\ UNCHANGED <<clockVars, serverVars>>
    \/ Return /\ UNCHANGED serverVars
    \/ Switch

SpecConc == InitConc /\ [][NextConc]_vars

\* the socket.io server: const io = new Server(server, ...) is the main
\* namespace, const liveIo = io.of('/ws/live') is the namespace checkRules
\* emits on
MainNamespace == "/"

LiveNamespace == "/ws/live"

Namespaces == {MainNamespace, LiveNamespace}

\* `metric:${id}`
subscribedRoom(metricId) == <<"metric:", metricId>>

\* a client of user opens a socket on a namespace of the server; the web
\* pages call io('http://localhost:3000', { auth: { token } }), which is the
\* main namespace
Connect(user, nsp) ==
    /\ pc = "idle"
    /\ callLog = <<>>
    /\ Cardinality(sockets) < MaxSockets
    /\ LET sid == "s" \o ToString(Cardinality(sockets) + 1)
       IN  sockets' = sockets \cup {[id |-> sid, nsp |-> nsp, user |-> user,
                                      rooms |-> {}]}
    /\ UNCHANGED <<engineVars, dbReadings, clockVars, routeVars, authVars, concVars,
                   received, msgVars>>

\* io.on('connection', socket => socket.on('subscribe_metrics', metricIds =>
\*   metricIds.forEach(id => socket.join(`metric:${id}`)))): the handler is
\* registered on the main namespace only
SubscribeMetrics(s, metricIds) ==
    /\ pc = "idle"
    /\ callLog = <<>>
    /\ s \in sockets
    /\ s.nsp = MainNamespace
    /\ sockets' = (sockets \ {s})
                   \cup {[s EXCEPT !.rooms = @ \cup {subscribedRoom(id) : id \in metricIds}]}
    /\ sockets' # sockets
    /\ UNCHANGED <<engineVars, dbReadings, clockVars, routeVars, authVars, concVars,
                   received, msgVars>>

\* what liveIo.to(room).emit(event, payload) hands to the sockets: one packet
\* for each socket of the live namespace that is in the room
Delivered(emitted) ==
    {[socket |-> s.id, event |-> emitted.event, payload |-> emitted.payload] :
        s \in {t \in sockets : t.nsp = LiveNamespace /\ emitted.room \in t.rooms}}

\* the notification step together with the delivery of what it emitted
NotifyLive ==
    /\ Notify
    /\ received' = IF Len(published') > Len(published)
                   THEN received \cup Delivered(published'[Len(published')])
                   ELSE received
    /\ UNCHANGED <<clockVars, routeVars, authVars, concVars, sockets, msgVars>>

LiveRuleTables ==
    {<<RuleRow("m1", ">", 1, "warning", TemplateFull)>>,
     <<RuleRow("m1", ">", 1, "warning", TemplateFull),
       RuleRow("m1", ">=", 2, "critical", TemplatePlain)>>}

SocketUsers == {"u1", "u2"}

InitLive ==
    /\ InitWith(LiveRuleTables)
    /\ dbMetrics["m1"] = Some(MetricRow("m1", "u1"))
    /\ \A k \in DOMAIN cache : cache[k] = Null
    /\ RouteIdle
    /\ AuthIdle
    /\ ExtraIdle

\* clients connect and subscribe, then POST /readings calls
\* checkRules(r, liveIo) on the stored reading
NextLive ==
    \/ \E user \in SocketUsers, nsp \in Namespaces : Connect(user, nsp)
    \/ \E s \in sockets, ids \in (SUBSET Metrics) \ {{}} : SubscribeMetrics(s, ids)
    \/ /\ callLog = <<>>
       /\ \E r \in dbReadings : Call(r, Some("liveIo"))
       /\ UNCHANGED <<clockVars, serverVars>>
    \/ CacheGet /\ Succeeds /\ UNCHANGED <<clockVars, serverVars>>
    \/ FindMany /\ Succeeds /\ UNCHANGED <<clockVars, serverVars>>
    \/ CacheSet /\ Succeeds /\ UNCHANGED <<clockVars, serverVars>>
    \/ FindUnique /\ Succeeds /\ UNCHANGED <<clockVars, serverVars>>
    \/ EvalRule /\ UNCHANGED <<clockVars, serverVars>>
    \/ CreateAlert /\ Succeeds /\ UNCHANGED <<clockVars, serverVars>>
    \/ NotifyLive /\ Succeeds
    \/ LoopExit /\ UNCHANGED <<clockVars, serverVars>>
    \/ Return /\ UNCHANGED serverVars

SpecLive == InitLive /\ [][NextLive]_vars

\* generateMessage applied to a template, a metric name, a value and a
\* threshold; a metric name is any string (name: z.string()), braces included
MetricNames ==
    {<<"Temp">>,
     <<"Temp ">> \o Placeholder("value"),
     Placeholder("threshold"),
     <<"Load ">> \o Placeholder("unit")}

MessageInputs ==
    [template : Templates, metricName : MetricNames, value : Values,
     threshold : 0..MaxThreshold]

InitMessage ==
    /\ InitWith({<<>>})
    /\ dbMetrics["m1"] = Some(MetricRow("m1", "u1"))
    /\ \A r \in dbReadings : r.value = 0
    /\ \A k \in DOMAIN cache : cache[k] = Null
    /\ RouteIdle
    /\ AuthIdle
    /\ parked = <<>>
    /\ editLog = <<>>
    /\ startedAt = 0
    /\ sockets = {}
    /\ received = {}
    /\ gmIn \in {Some(in) : in \in MessageInputs}
    /\ gmOut = Null

\* return template.replace(...).replace(...).replace(...)
Render ==
    /\ gmIn # Null
    /\ gmOut = Null
    /\ gmOut' = Some(generateMessage(Get(gmIn).template, Get(gmIn).metricName,
                                     Get(gmIn).value, Get(gmIn).threshold))
    /\ UNCHANGED <<engineVars, dbReadings, clockVars, routeVars, authVars, concVars,
                   liveVars, gmIn>>

NextMessage == Render

SpecMessage == InitMessage /\ [][NextMessage]_vars

TypeOK ==
    /\ pc \in {"idle", "get", "findMany", "set", "findUnique", "loop", "create", "notify", "done"}
    /\ raised \in BOOLEAN
    /\ idx \in Nat

-----------------------------------------------------------------------------
(* Vocabulary of the properties *)

Done == pc = "done"

\* the collaborator call op was made / was made and failed
WasCalled(op) == \E i \in 1..Len(calls) : calls[i].op = op
Failed(op) == \E i \in 1..Len(calls) : calls[i].op = op /\ ~calls[i].ok
NoFailure == \A i \in 1..Len(calls) : calls[i].ok
OnlyFailuresOf(op) == \A i \in 1..Len(calls) : ~calls[i].ok => calls[i].op = op

\* numeric comparison, as the table of the condition operators states it
Compare(condition, v, t) ==
    \/ condition = ">" /\ v > t
    \/ condition = "<" /\ v < t
    \/ condition = ">=" /\ v >= t
    \/ condition = "<=" /\ v <= t
    \/ condition = "==" /\ v = t
    \/ condition = "!=" /\ v # t

KnownConditions == {">", "<", ">=", "<=", "==", "!="}

\* rule q fires on the reading of the invocation
Fires(q) == Compare(q.condition, Get(reading).value, q.threshold)

\* the create call was attempted / succeeded / failed for the rule at position k
Attempted(k) == \E i \in 1..Len(createCalls) : createCalls[i].rule = k
Persisted(k) == \E i \in 1..Len(createCalls) : createCalls[i].rule = k /\ createCalls[i].ok
CreateFailed(k) == \E i \in 1..Len(createCalls) : createCalls[i].rule = k /\ ~createCalls[i].ok

\* an alert of the reading of the invocation carrying rule q's level and threshold is stored
HasAlertOf(q) ==
    \E i \in 1..Len(alerts) :
        /\ alerts[i].reading_id = Get(reading).id
        /\ alerts[i].level = q.level
        /\ alerts[i].threshold = q.threshold

\* the metric of the reading is in the store
MetricResolvable == reading # Null /\ dbMetrics[Get(reading).metric_id] # Null

\* the rules of the reading's metric in the store
MetricRules == SelectRules(dbRules, Get(reading).metric_id)

-----------------------------------------------------------------------------
(* Properties *)

\* C1: when all rules of the list match and only alert-create calls fail, every
\* rule gets its create attempt and every rule whose create did not fail has
\* its alert persisted (a failed create for rule k does not stop rules k+1..N).
C1_PerRuleFailureIndependence ==
    (/\ Done
     /\ metric # Null
     /\ rules # Null
     /\ \A k \in 1..Len(Get(rules)) : Fires(Get(rules)[k])
     /\ OnlyFailuresOf("alert.create"))
    => \A k \in 1..Len(Get(rules)) :
          Attempted(k) /\ (~CreateFailed(k) => Persisted(k))

\* C2: when the cache get fails (and nothing else does), the store is queried
\* for the metric's rules and every rule of the metric that fires has its alert.
C2_CacheReadFailureIsMiss ==
    (Done /\ MetricResolvable /\ Failed("redis.get") /\ OnlyFailuresOf("redis.get"))
    => /\ WasCalled("alertRule.findMany")
       /\ \A k \in 1..Len(MetricRules) : Fires(MetricRules[k]) => HasAlertOf(MetricRules[k])

\* C3: when the store query succeeded and the cache set fails (and nothing else
\* does), the queried rules are evaluated and every rule that fires has its alert.
C3_CacheWriteFailureTolerated ==
    (Done /\ MetricResolvable /\ Failed("redis.set") /\ OnlyFailuresOf("redis.set"))
    => /\ Len(verdicts) = Len(MetricRules)
       /\ \A k \in 1..Len(MetricRules) : Fires(MetricRules[k]) => HasAlertOf(MetricRules[k])

\* C4: when only notification publishes fail, all rules of the list are still
\* evaluated and every rule that fires has its alert persisted.
C4_PublishFailureContained ==
    (Done /\ metric # Null /\ rules # Null /\ Failed("io.emit") /\ OnlyFailuresOf("io.emit"))
    => /\ Len(verdicts) = Len(Get(rules))
       /\ \A k \in 1..Len(Get(rules)) : Fires(Get(rules)[k]) => Persisted(k)

\* C5: no exception leaves checkRules: whichever collaborator call fails, the
\* call ends without raising and the failure is logged once, with the reading id;
\* without a failure nothing is logged.
C5_NeverRaises ==
    /\ ~raised
    /\ ~NoFailure => (Done /\ errorLog = <<Get(reading).id>>)
    /\ NoFailure => errorLog = <<>>

C5_Witness ==
    /\ Done
    /\ Failed("io.emit")
    /\ Len(alerts) = 1
    /\ ~raised

\* C6: the data of every alert-create call, and every stored alert, has status
\* "new", the level and threshold of the rule it was created for, the message
\* rendered from that rule's template with the metric name, the reading's value
\* and the rule's threshold, and the reading's metric_id and id.
C6_AlertFields ==
    /\ \A i \in 1..Len(createCalls) :
        LET d == createCalls[i].data
            q == Get(rules)[createCalls[i].rule]
            r == Get(reading)
        IN  /\ d.status = "new"
            /\ d.level = q.level
            /\ d.threshold = q.threshold
            /\ d.message = generateMessage(q.message_template, Get(metric).name,
                                           r.value, q.threshold)
            /\ d.metric_id = r.metric_id
            /\ d.reading_id = r.id
    /\ \A j \in 1..Len(alerts) :
        \E i \in 1..Len(createCalls) :
            LET d == createCalls[i].data
            IN  /\ createCalls[i].ok
                /\ alerts[j].status = d.status
                /\ alerts[j].level = d.level
                /\ alerts[j].threshold = d.threshold
                /\ alerts[j].message = d.message
                /\ alerts[j].metric_id = d.metric_id
                /\ alerts[j].reading_id = d.reading_id

C6_Witness ==
    /\ Len(alerts) = 2
    /\ alerts[1].level = "warning"
    /\ alerts[2].level = "critical"
    /\ alerts[2].status = "new"
    /\ alerts[2].threshold = 1
    /\ alerts[2].message = <<"Temp", " is ", "3", ", exceeding ", "1">>

\* C7: after a call without failure on a resolvable metric, each rule of the
\* metric has exactly one alert-create call when its condition holds for the
\* reading's value and none when it does not, and each call stored one alert.
C7_OneAlertPerFiringRule ==
    (Done /\ NoFailure /\ MetricResolvable)
    => /\ \A k \in 1..Len(MetricRules) :
            Cardinality({i \in 1..Len(createCalls) : createCalls[i].rule = k})
                = IF Fires(MetricRules[k]) THEN 1 ELSE 0
       /\ Len(createCalls) = Cardinality({k \in 1..Len(MetricRules) : Fires(MetricRules[k])})
       /\ Len(alerts) = Len(createCalls)

C7_Witness ==
    /\ Done
    /\ NoFailure
    /\ MetricResolvable
    /\ Len(MetricRules) = 3
    /\ Len(alerts) = 2

\* C8: for every rule visited, the condition is met exactly when the numeric
\* comparison named by its operator holds between the reading's value and the
\* rule's threshold; for any other operator string the condition is not met,
\* the rule is skipped, and no error is logged or raised because of it.
C8_ConditionSemantics ==
    /\ \A k \in 1..Len(verdicts) :
        LET q == Get(rules)[k]
            v == Get(reading).value
            t == q.threshold
        IN  /\ q.condition = ">"  => (verdicts[k] = "met" <=> v > t)
            /\ q.condition = "<"  => (verdicts[k] = "met" <=> v < t)
            /\ q.condition = ">=" => (verdicts[k] = "met" <=> v >= t)
            /\ q.condition = "<=" => (verdicts[k] = "met" <=> v <= t)
            /\ q.condition = "==" => (verdicts[k] = "met" <=> v = t)
            /\ q.condition = "!=" => (verdicts[k] = "met" <=> v # t)
            /\ q.condition \notin KnownConditions => verdicts[k] = "skipped"
            /\ verdicts[k] = "met" <=> Attempted(k) \/ (pc = "create" /\ idx = k)
    /\ NoFailure => (errorLog = <<>> /\ ~raised)

C8_Witness ==
    /\ Done
    /\ Len(verdicts) = 1
    /\ Get(rules)[1].condition = ">="
    /\ Get(rules)[1].threshold = 2
    /\ Get(reading).value = 2
    /\ verdicts[1] = "met"
    /\ Len(alerts) = 1

\* C9: a rule with an unknown operator gets no alert-create call, and after a
\* call without collaborator failure every rule of the list was visited and
\* every rule that fires, also after the unknown one, has its alert persisted.
C9_UnknownOperatorSkipped ==
    rules # Null =>
        \A k \in 1..Len(Get(rules)) :
            Get(rules)[k].condition \notin KnownConditions =>
                /\ ~Attempted(k)
                /\ ~(pc = "create" /\ idx = k)
                /\ (Done /\ NoFailure /\ metric # Null) =>
                      /\ Len(verdicts) = Len(Get(rules))
                      /\ errorLog = <<>>
                      /\ \A j \in (k + 1)..Len(Get(rules)) :
                            Fires(Get(rules)[j]) => Persisted(j)

C9_Witness ==
    /\ Done
    /\ NoFailure
    /\ Len(Get(rules)) = 2
    /\ Get(rules)[1].condition = "???"
    /\ verdicts = <<"skipped", "met">>
    /\ Persisted(2)

\* C10: no message passed to alert-create still holds one of the placeholders
\* {metricName}, {value}, {threshold}: every occurrence was replaced (the metric
\* names and numerals of the scenarios hold no brace).
C10_EveryOccurrenceReplaced ==
    \A i \in 1..Len(createCalls) :
        /\ ~Contains(createCalls[i].data.message, Placeholder("metricName"))
        /\ ~Contains(createCalls[i].data.message, Placeholder("value"))
        /\ ~Contains(createCalls[i].data.message, Placeholder("threshold"))

\* the number of occurrences of pat in s
CountOf(s, pat) ==
    Cardinality({i \in 1..(Len(s) - Len(pat) + 1) : SubSeq(s, i, i + Len(pat) - 1) = pat})

\* the template holds one of the three placeholders generateMessage knows
HasKnownPlaceholder(tpl) ==
    \/ Contains(tpl, Placeholder("metricName"))
    \/ Contains(tpl, Placeholder("value"))
    \/ Contains(tpl, Placeholder("threshold"))

CallsOf(op) == {i \in 1..Len(calls) : calls[i].op = op}

\* the cache get of the invocation succeeded and found no entry under the key
CacheMiss == Len(calls) >= 1 /\ calls[1].ok /\ calls[1].info.entry = Null

\* C12: after a cache get that finds no entry, the invocation issues one store
\* query, for the rules whose metric_id is the reading's metric, and, the query
\* having succeeded, one cache write, under the key "alert_rules:" + metric id,
\* of the serialized rules of that metric, with a TTL of 300 seconds.
C12_MissQueriesOnceWritesOnce ==
    CacheMiss =>
        LET m == Get(reading).metric_id
            queries == CallsOf("alertRule.findMany")
            writes == CallsOf("redis.set")
        IN  /\ calls[1].info.key = <<"alert_rules:", m>>
            /\ pc # "findMany" =>
                  /\ Cardinality(queries) = 1
                  /\ \A i \in queries : calls[i].info.where = m
            /\ (pc \notin {"findMany", "set"} /\ \A i \in queries : calls[i].ok) =>
                  /\ Cardinality(writes) = 1
                  /\ \A i \in writes :
                        /\ calls[i].info.key = <<"alert_rules:", m>>
                        /\ calls[i].info.value = JSONstringify(SelectRules(dbRules, m))
                        /\ calls[i].info.EX = 300
            /\ (Done /\ NoFailure) =>
                  cache[<<"alert_rules:", m>>] =
                      Some([value |-> JSONstringify(SelectRules(dbRules, m)),
                            EX |-> 300, at |-> now])

C12_Witness ==
    /\ Done
    /\ NoFailure
    /\ CacheMiss
    /\ Len(SelectRules(dbRules, "m1")) = 2
    /\ Len(dbRules) = 3
    /\ Cardinality(CallsOf("alertRule.findMany")) = 1
    /\ Cardinality(CallsOf("redis.set")) = 1
    /\ cache[<<"alert_rules:", "m1">>] # Null

\* the positions in the call trace cs of the calls of collaborator op
TraceCallsOf(cs, op) == {i \in 1..Len(cs) : cs[i].op = op}

\* The call trace cs of one invocation, which evaluates the rule list rl, obeys
\* the cache: an entry written less than 300 seconds before the get means no
\* store query, no cache write and the entry's rules; no such entry means one
\* store query (once the invocation is past it) and, the query having
\* succeeded, one cache write with a TTL of 300 seconds (once past it).
ObeysCache(cs, rl, pastQuery, pastWrite) ==
    (Len(cs) >= 1 /\ cs[1].ok) =>
        LET e == cs[1].info.entry
            queries == TraceCallsOf(cs, "alertRule.findMany")
            writes == TraceCallsOf(cs, "redis.set")
        IN  IF e # Null /\ cs[1].info.at < Get(e).at + 300
            THEN /\ queries = {}
                 /\ writes = {}
                 /\ rl = Some(JSONparse(Get(e).value))
            ELSE /\ pastQuery => Cardinality(queries) = 1
                 /\ (pastWrite /\ \A i \in queries : cs[i].ok) =>
                       /\ Cardinality(writes) = 1
                       /\ \A i \in writes : cs[i].info.EX = 300

\* C13: of checkRules invocations one after the other on the same metric, an
\* invocation whose cache get finds an entry less than 300 seconds old issues
\* no store query for rules and evaluates the rules of the entry; an invocation
\* whose get comes 300 seconds or more after the entry was written issues one
\* store query and one cache write, as on a miss.
C13_SequentialCallsFollowTTL ==
    /\ \A k \in 1..Len(callLog) :
          ObeysCache(callLog[k].calls, callLog[k].rules, TRUE, TRUE)
    /\ ObeysCache(calls, rules, pc \notin {"get", "findMany"},
                  pc \notin {"get", "findMany", "set"})

\* the first invocation wrote the entry, the second found it expired and
\* queried the store and wrote the cache again
C13_Witness ==
    /\ Len(callLog) = 1
    /\ \E i \in TraceCallsOf(callLog[1].calls, "redis.set") :
          /\ callLog[1].calls[i].ok
          /\ Len(JSONparse(callLog[1].calls[i].info.value)) = 1
    /\ Done
    /\ NoFailure
    /\ calls[1].info.entry # Null
    /\ calls[1].info.at >= Get(calls[1].info.entry).at + 300
    /\ Cardinality(CallsOf("alertRule.findMany")) = 1
    /\ Cardinality(CallsOf("redis.set")) = 1
    /\ Len(alerts) = 2

\* C14: when the store has no metric of the reading's metric_id, the invocation
\* attempts and stores no alert, makes no publish call, raises nothing to its
\* caller and, no collaborator having failed, logs no error, whatever rules the
\* cache or the store hold for that metric_id.
C14_MetricNotFoundIsSilent ==
    (reading # Null /\ dbMetrics[Get(reading).metric_id] = Null) =>
        /\ alerts = <<>>
        /\ createCalls = <<>>
        /\ published = <<>>
        /\ ~WasCalled("io.emit")
        /\ ~raised
        /\ NoFailure => errorLog = <<>>

\* the lookup answered null while a rule of the metric matches the reading
C14_Witness ==
    /\ Done
    /\ NoFailure
    /\ dbMetrics[Get(reading).metric_id] = Null
    /\ WasCalled("metric.findUnique")
    /\ metric = Null
    /\ io # Null
    /\ rules # Null
    /\ \E k \in 1..Len(Get(rules)) : Fires(Get(rules)[k])

\* the positions in calls of the create calls that succeeded
OkCreates == {i \in CallsOf("alert.create") : calls[i].ok}

\* a notifier was passed and the device of the metric has a non-empty owner id
Notifiable == io # Null /\ metric # Null /\ Get(metric).device.owner_id # ""

\* C15: a publish call is made for a created alert exactly when a notifier was
\* passed to checkRules and the owner id of the metric's device is non-empty:
\* then the create that succeeded is followed by a publish call, otherwise no
\* publish call is made at all; either way every alert created is stored.
C15_PublishIffNotifierAndOwner ==
    /\ ~Notifiable => CallsOf("io.emit") = {}
    /\ Notifiable =>
          \A i \in OkCreates :
              (i < Len(calls) \/ pc # "notify") =>
                  (i + 1 <= Len(calls) /\ calls[i + 1].op = "io.emit")
    /\ \A j \in CallsOf("io.emit") : j - 1 \in OkCreates
    /\ Len(alerts) = Cardinality(OkCreates)

\* a notifier was passed, the owner id is empty: two alerts stored, no publish
C15_Witness ==
    /\ Done
    /\ NoFailure
    /\ io # Null
    /\ metric # Null
    /\ Get(metric).device.owner_id = ""
    /\ Len(alerts) = 2
    /\ ~WasCalled("io.emit")

\* C16: with a notifier and a non-empty owner id, the publish calls of the
\* invocation are one per stored alert, in order, each of event 'new_alert' to
\* room 'user:' + owner id with the row the create call returned as payload.
C16_OneNewAlertPerPersistedAlert ==
    Notifiable =>
        LET emits == CallsOf("io.emit")
            owner == Get(metric).device.owner_id
        IN  /\ pc # "notify" => Cardinality(emits) = Len(alerts)
            /\ pc = "notify" => Cardinality(emits) = Len(alerts) - 1
            /\ \A j \in emits :
                  LET n == Cardinality({i \in emits : i <= j})
                  IN  calls[j].info = [room |-> <<"user:", owner>>,
                                       event |-> "new_alert",
                                       payload |-> alerts[n]]
            /\ \A n \in 1..Len(published) :
                  published[n] = [room |-> <<"user:", owner>>,
                                  event |-> "new_alert",
                                  payload |-> alerts[n]]
            /\ (Done /\ NoFailure) => Len(published) = Len(alerts)

C16_Witness ==
    /\ Done
    /\ NoFailure
    /\ Notifiable
    /\ Get(metric).device.owner_id = "u1"
    /\ Len(alerts) = 2
    /\ Len(published) = 2
    /\ alerts[1] # alerts[2]

\* C17: every publish call, whether it succeeds or throws, comes right after
\* the create call of its alert has succeeded and carries a row that is stored,
\* and the row stays stored in every later state: no publish call follows a
\* failed create, and a failed publish leaves the stored alerts as they were.
C17_PersistenceBeforeDispatch ==
    /\ \A j \in CallsOf("io.emit") :
          /\ j - 1 \in CallsOf("alert.create")
          /\ calls[j - 1].ok
          /\ \E n \in 1..Len(alerts) : alerts[n] = calls[j].info.payload
    /\ \A n \in 1..Len(published) :
          \E k \in 1..Len(alerts) : alerts[k] = published[n].payload
    /\ \A i \in CallsOf("alert.create") :
          ~calls[i].ok => (i = Len(calls) /\ pc = "done")
    /\ Len(alerts) = Cardinality({i \in CallsOf("alert.create") : calls[i].ok})

\* the first alert was stored and published, the publish of the second threw
\* after it was stored
C17_Witness ==
    /\ Done
    /\ Failed("io.emit")
    /\ Len(alerts) = 2
    /\ Len(published) = 1
    /\ Len(errorLog) = 1

\* the logged invocation k met a failure of collaborator op
LoggedFailure(k, op) ==
    \E i \in 1..Len(callLog[k].calls) :
        callLog[k].calls[i].op = op /\ ~callLog[k].calls[i].ok

\* C18: once the valid readings of a POST /readings body are stored, they stay
\* stored, no exception leaves a checkRules call of the batch, and the answer
\* of the request, when it comes, is 202 with the number accepted and the number
\* rejected, whatever failed inside the checkRules calls.
C18_IngestionSurvivesAlerting ==
    ri >= 1 =>
        /\ Len(created) = Len(validReadings)
        /\ \A k \in 1..Len(created) : created[k] \in dbReadings
        /\ ~raised
        /\ res # Null =>
              res = Some([status |-> 202,
                          data |-> Some([accepted |-> Len(created),
                                         rejected |-> Len(Get(req).body.items)
                                                        - Len(created)])])

\* three readings accepted; the cache failed in the first checkRules call, the
\* store in the second, the publish in the third; the answer is 202
C18_Witness ==
    /\ res # Null
    /\ Get(res).status = 202
    /\ Len(created) = 3
    /\ Len(callLog) = 3
    /\ LoggedFailure(1, "redis.get")
    /\ LoggedFailure(2, "alert.create")
    /\ LoggedFailure(3, "io.emit")
    /\ Len(errorLog) = 3
    /\ \A k \in 1..3 : created[k] \in dbReadings

\* the user of the request may write to the metric of reading r
MayWrite(r) ==
    /\ dbMetrics[r.metric_id] # Null
    /\ \/ Get(req).user.role = "admin"
       \/ Get(dbMetrics[r.metric_id]).device.owner_id = Get(req).user.id

\* C19: the checkRules invocations of a POST /readings request are, in order,
\* one for each stored reading of the batch: the k-th is for the k-th reading
\* of the body that the user may write to, stored, and starts when the k-1
\* earlier ones have returned; at the 202 answer every such reading has had
\* its invocation.
C19_OncePerPersistedReadingInOrder ==
    req # Null =>
        LET kept == SelectSeq(Get(req).body.items, MayWrite)
        IN  /\ Len(started) <= Len(created)
            /\ ri >= 1 => Len(created) = Len(kept)
            /\ \A k \in 1..Len(started) :
                  /\ started[k].reading = created[k]
                  /\ started[k].reading \in dbReadings
                  /\ started[k].reading.metric_id = kept[k].metric_id
                  /\ started[k].reading.value = kept[k].value
                  /\ started[k].returned = k - 1
                  /\ \A j \in 1..(k - 1) : started[j].reading.id # started[k].reading.id
            /\ Len(callLog) \in {Len(started) - 1, Len(started)}
            /\ \A k \in 1..Len(callLog) : callLog[k].reading = started[k].reading.id
            /\ rpc # "await" => Len(callLog) = Len(started)
            /\ (res # Null /\ Get(res).status = 202) => Len(started) = Len(kept)

\* of a body of three readings the second is rejected, the two others are
\* evaluated in the order of the body
C19_Witness ==
    /\ res # Null
    /\ Get(res).status = 202
    /\ Len(Get(req).body.items) = 3
    /\ Get(res).data = Some([accepted |-> 2, rejected |-> 1])
    /\ ~MayWrite(Get(req).body.items[2])
    /\ Len(started) = 2
    /\ started[1].reading.metric_id = "m1"
    /\ started[2].reading.metric_id = "m1"
    /\ Len(callLog) = 2

\* req.user is set and its role is one of roles, letter for letter
Permitted == reqUser # Null /\ Get(reqUser).role \in {roles[i] : i \in 1..Len(roles)}

C21_UnitSubstituted ==
    \A i \in 1..Len(createCalls) :
        LET q == Get(rules)[createCalls[i].rule]
        IN  q.message_template = TemplateUnit =>
                createCalls[i].data.message =
                    NumToString(Get(reading).value) \o Get(metric).unit \o <<" over ">>
                    \o NumToString(q.threshold) \o Get(metric).unit

\* C22: in no step does an alert whose status is 'closed' take another
\* status, and in no step does an alert whose status is not 'new' take the
\* status 'new'.
C22_ClosedIsTerminal ==
    [][\A i \in 1..Len(alerts) :
          /\ alerts[i].status = "closed" => alerts'[i].status = "closed"
          /\ alerts[i].status # "new" => alerts'[i].status # "new"]_vars

\* C23: every stored alert that has a reading_id names a stored reading whose
\* metric_id is the alert's metric_id.
C23_AlertReadingOfSameMetric ==
    \A i \in 1..Len(alerts) :
        "reading_id" \in DOMAIN alerts[i] =>
            \E r \in dbReadings :
                r.id = alerts[i].reading_id /\ r.metric_id = alerts[i].metric_id

\* C24: in every step, the alerts already stored keep their threshold, level
\* and message, whatever happens to the rules; and an alert that the step
\* stores carries the threshold of the rule instance the invocation has just
\* compared the reading against.
C24_ThresholdIsSnapshot ==
    [][/\ Len(alerts') >= Len(alerts)
       /\ \A i \in 1..Len(alerts) :
             /\ alerts'[i].threshold = alerts[i].threshold
             /\ alerts'[i].level = alerts[i].level
             /\ alerts'[i].message = alerts[i].message
       /\ Len(alerts') > Len(alerts) =>
             /\ Len(alerts') = Len(alerts) + 1
             /\ alerts'[Len(alerts')].threshold = Get(rules)[idx].threshold
             /\ Compare(Get(rules)[idx].condition, Get(reading).value,
                        alerts'[Len(alerts')].threshold)]_vars

\* an alert of threshold 1 is stored; the rule was then updated and no rule of
\* the table has threshold 1 any more
C24_Witness ==
    /\ Len(alerts) >= 1
    /\ alerts[1].threshold = 1
    /\ alerts[1].level = "warning"
    /\ Len(editLog) = 1
    /\ editLog[1].op = "update"
    /\ Len(callLog) = 1
    /\ Len(callLog[1].createCalls) >= 1
    /\ \A k \in 1..Len(dbRules) : dbRules[k].threshold # 1 /\ dbRules[k].level # "warning"

\* C25: an invocation called more than 300 seconds after every rule edit
\* committed so far evaluates the rules the store holds for its metric.
C25_StalenessBoundedByTTL ==
    (/\ rules # Null
     /\ editLog # <<>>
     /\ \A k \in 1..Len(editLog) : startedAt > editLog[k].at + 300) =>
        Get(rules) = SelectRules(dbRules, Get(reading).metric_id)

\* C26: when checkRules runs on two different readings at once, the rules
\* unchanged and the collaborators answering, then however their
\* collaborator calls interleave, the alerts stored for each reading are, in
\* order, a prefix of the alerts the invocation on that reading creates when
\* it runs alone, and all of them once both invocations have returned; every
\* stored alert belongs to one of the two readings
AloneAlerts(r) ==
    LET rs == SelectRules(dbRules, r.metric_id)
        met(rule) == conditionMet(rule.condition, r.value, rule.threshold) = "met"
        firing == SelectSeq(rs, met)
    IN  [i \in 1..Len(firing) |-> alertData(r, firing[i], Get(dbMetrics[r.metric_id]))]

WithoutId(a) == [f \in DOMAIN a \ {"id"} |-> a[f]]

AlertsOf(rid) ==
    LET of(a) == a.reading_id = rid
        rows == SelectSeq(alerts, of)
    IN  [i \in 1..Len(rows) |-> WithoutId(rows[i])]

IsPrefix(s, t) == Len(s) <= Len(t) /\ \A i \in 1..Len(s) : s[i] = t[i]

C26_ConcurrentInvocationsSafe ==
    /\ \A i \in 1..Len(alerts) : \E r \in dbReadings : alerts[i].reading_id = r.id
    /\ \A r \in dbReadings :
        /\ IsPrefix(AlertsOf(r.id), AloneAlerts(r))
        /\ r.id \in {callLog[i].reading : i \in 1..Len(callLog)} =>
               AlertsOf(r.id) = AloneAlerts(r)

\* both invocations have returned, their alert.create calls were interleaved
\* and both readings have alerts
C26_Witness ==
    /\ Len(callLog) = 2
    /\ Len(alerts) >= 3
    /\ alerts[1].reading_id = "r1"
    /\ alerts[2].reading_id = "r2"
    /\ alerts[3].reading_id = "r1"

\* C27: within one checkRules call the alerts stored are, in order, those of
\* the rules of the list read from the cache or the store whose condition the
\* reading meets, taken in the order of that list whatever their levels, and
\* the notifications published carry these alerts in the same order
FiringAlerts ==
    LET r == Get(reading)
        met(rule) == conditionMet(rule.condition, r.value, rule.threshold) = "met"
        firing == SelectSeq(Get(rules), met)
    IN  [i \in 1..Len(firing) |-> alertData(r, firing[i], Get(metric))]

C27_RuleOrderPreserved ==
    /\ alerts # <<>> =>
        /\ rules # Null /\ metric # Null
        /\ IsPrefix(AlertsOf(Get(reading).id), FiringAlerts)
        /\ Len(AlertsOf(Get(reading).id)) = Len(alerts)
    /\ Len(published) <= Len(alerts)
    /\ \A i \in 1..Len(published) : published[i].payload = alerts[i]

\* a warning alert was stored and published before a critical one
C27_Witness ==
    /\ Len(alerts) = 2
    /\ Len(published) = 2
    /\ alerts[1].level = "warning"
    /\ alerts[2].level = "critical"
    /\ published[2].payload.level = "critical"
    /\ pc = "done"

\* C28: once checkRules, called with the live channel, has stored an alert of
\* a metric and returned, every connected socket of the metric's device owner
\* has been handed the 'new_alert' event carrying that alert
C28_OwnerSocketReceives ==
    callLog # <<>> =>
        \A i \in 1..Len(alerts) : \A s \in sockets :
            s.user = Get(dbMetrics[alerts[i].metric_id]).device.owner_id =>
                [socket |-> s.id, event |-> "new_alert", payload |-> alerts[i]] \in received

\* C29: when the template holds {metricName}, the metric name stands in the
\* rendered message as it was given, braces and all: a {value} or
\* {threshold} inside the name is not taken for a placeholder
C29_InsertedTextNotRescanned ==
    (gmOut # Null /\ Contains(Get(gmIn).template, Placeholder("metricName"))) =>
        Contains(Get(gmOut), Get(gmIn).metricName)

====
